---- MODULE Spec2Model ----
(***************************************************************************)
(* Model of the Pioneer WYT mini-split bridge (src/service/app.py).        *)
(*                                                                         *)
(* DeviceConnection is the "thread-safe device connection manager": one    *)
(* device handle, one non-reentrant threading.Lock, and a status cache     *)
(* (last_status, last_status_time) with a TTL.  The model runs a fixed set *)
(* of caller threads, each of which repeatedly calls connect(),            *)
(* get_status(force_refresh) or set_value(dp, value).  A step of a thread   *)
(* ends at each point where another thread can make a difference: before   *)
(* every lock acquisition, before the unlocked read of last_status,        *)
(* between the two cache writes of get_status, and around every call of    *)
(* the device link (tinytuya), which starts when the thread reaches the    *)
(* in-flight position and ends with a nondeterministic outcome.  The clock *)
(* matters only where it is read, so it advances there.                    *)
(***************************************************************************)
EXTENDS Integers, FiniteSets, Sequences, TLC

(***************************************************************************)
(* Bounds of the model.                                                    *)
(***************************************************************************)
NumThreads == 2      \* concurrent callers of the manager
MaxCalls == 3        \* manager calls begun after startup
MaxTicks == 2        \* seconds the clock advances after startup

Threads == 1..NumThreads
NoThread == 0        \* the lock is free
NoDevice == 0        \* self.device is None

(***************************************************************************)
(* status_cache_ttl, in clock units (seconds).                             *)
(***************************************************************************)
TTL == 2

\* time.time() is epoch time: it is already past the TTL when the service
\* starts, so the initial last_status_time = 0 is never fresh.
StartTime == TTL
MaxTime == StartTime + MaxTicks

(***************************************************************************)
(* Raw datapoint mappings are sets of <<key, value>> pairs; {} is the      *)
(* empty mapping.  DpsValues are the mappings a status query may carry.    *)
(***************************************************************************)
EmptyDps == {}
DpsValues == {{<<"1", TRUE>>}}

\* A status mapping as the program holds it.  dps is the mapping itself;
\* wr, h, forced, seq and at are history marks of the fetch that produced
\* it (the number of device writes sent before it, the handle it was read
\* through, whether the fetching call had force_refresh set, its index among
\* the successful device queries, and the clock when the device answered).
Snapshot(d, w, hd, f, q, a) ==
    [dps |-> d, wr |-> w, h |-> hd, forced |-> f, seq |-> q, at |-> a]
EmptyStatus == Snapshot(EmptyDps, 0, NoDevice, FALSE, 0, 0)

\* History of a get_status call, taken when it begins: tr is the index of
\* the last device write whose set_value had returned True, gen the number
\* of handles constructed, first whether it is the first get_status(False)
\* to begin since that set_value returned.
NoStart == [tr |-> 0, gen |-> 0, first |-> FALSE]

VARIABLES
    creds,             \* all([DEVICE_ID, LOCAL_KEY, DEVICE_IP])
    device,            \* self.device: NoDevice or the id of the handle
    lock,              \* self.lock: NoThread or the thread holding it
    last_status,       \* self.last_status
    last_status_time,  \* self.last_status_time
    now,               \* the clock, as time.time() last read it
    fr,                \* the frame of each thread's manager call
    nCalls,            \* history: manager calls begun
    nHandles,          \* history: handles constructed
    nWrites,           \* history: device writes sent
    lastTrue,          \* history: index of the last write whose set_value returned True
    readPending,       \* history: no get_status(False) began since that return
    nQueries,          \* history: device status queries answered with 'dps'
    temp_unit,         \* TEMP_UNIT
    config,            \* DPID_CONFIG, as loaded from dpids.yaml
    applied            \* the last application of a translator: its argument and result

\* the state of the connection manager / of the translators
mvars == <<creds, device, lock, last_status, last_status_time, now, fr, nCalls,
           nHandles, nWrites, lastTrue, readPending, nQueries>>
tvars == <<temp_unit, config, applied>>

vars == <<mvars, tvars>>

(***************************************************************************)
(* Python values of the translators.  A request value (CommandRequest.value *)
(* is Any) and a value handed to set_value is one of: a bool, an int, a     *)
(* finite float (n is the value in hundredths), the float inf (what          *)
(* json.loads makes of 1e999), or a str.                                     *)
(***************************************************************************)
BoolV(b) == [t |-> "bool", n |-> IF b THEN 1 ELSE 0, s |-> ""]
IntV(n) == [t |-> "int", n |-> n, s |-> ""]
FloatV(h) == [t |-> "float", n |-> h, s |-> ""]
Inf == [t |-> "inf", n |-> 0, s |-> ""]
StrV(s) == [t |-> "str", n |-> 0, s |-> s]

\* None where a str is expected (dict.get of a missing key)
None == "None"

(***************************************************************************)
(* Numbers in floating point are modelled as exact fractions num/den with  *)
(* den > 0.  On every input of the model whose result is not clamped away  *)
(* the double-precision results of the program round or truncate to the    *)
(* same numbers.                                                           *)
(***************************************************************************)
Rat(n, d) == [num |-> n, den |-> d]

\* int(x) of a float: truncation toward zero
Trunc(r) ==
    IF r.num >= 0 THEN r.num \div r.den ELSE -((-r.num) \div r.den)

\* round(x, 1), in tenths: the nearest tenth (a tie goes to the even one)
Round1(r) ==
    LET a == 10 * r.num
        q == a \div r.den
        m == a % r.den
    IN  IF 2 * m < r.den THEN q
        ELSE IF 2 * m > r.den THEN q + 1
        ELSE IF q % 2 = 0 THEN q ELSE q + 1

\* return (c * 9 / 5) + 32
celsius_to_fahrenheit_scaled(c) == Rat(9 * c.num, 5 * c.den)

celsius_to_fahrenheit(c) == Rat(9 * c.num + 160 * c.den, 5 * c.den)

\* return (f - 32) * 5 / 9
fahrenheit_to_celsius(f) == Rat(5 * (f.num - 32 * f.den), 9 * f.den)

(***************************************************************************)
(* str methods and literals, on the strings of the model.                  *)
(***************************************************************************)
\* s.lower()
Lower(s) ==
    CASE s = "MODE" -> "mode"
      [] s = "Target_Temp" -> "target_temp"
      [] s = "ON" -> "on"
      [] s = "True" -> "true"
      [] OTHER -> s

\* the strings float() accepts, with their values
FloatLiterals == {<<"74", Rat(74, 1)>>, <<"3", Rat(3, 1)>>, <<"3.5", Rat(35, 10)>>}

\* the strings int() accepts, with their values
IntLiterals == {<<"74", 74>>, <<"3", 3>>}

\* a mapping is a set of <<key, value>> pairs
Has(d, k) == \E p \in d : p[1] = k
Get(d, k) == (CHOOSE p \in d : p[1] = k)[2]

\* d.get(k, default)
GetOr(d, k, default) == IF Has(d, k) THEN Get(d, k) ELSE default

(***************************************************************************)
(* DPID_CONFIG.  dpids.yaml is read when the module is loaded; the         *)
(* translators only ever see its content, which is an input of the         *)
(* program.  PioneerConfig carries the Pioneer WYT datapoints; BareConfig   *)
(* is a configuration that declares bounds for target_temp, and neither    *)
(* vocabulary maps nor enumeration value sets.                              *)
(***************************************************************************)
\* a mapping without entries
EmptyMap == [k \in {} |-> ""]

PioneerConfig ==
    [datapoints |->
        [power |-> [dp |-> 1, type |-> "bool"],
         target_temp |-> [dp |-> 2, type |-> "int", scale |-> 10],
         current_temp |-> [dp |-> 3, type |-> "int", readonly |-> TRUE],
         mode |-> [dp |-> 4, type |-> "enum",
                   values |-> {"cold", "hot", "wet", "wind", "auto"}],
         fan |-> [dp |-> 5, type |-> "enum",
                  values |-> {"auto", "quiet", "low", "medium-low", "medium",
                              "medium-high", "high", "strong"}],
         vert_swing |-> [dp |-> 113, type |-> "enum",
                         values |-> {"off", "full", "upper", "lower"}],
         eco_mode |-> [dp |-> 119, type |-> "string"],
         vert_position |-> [dp |-> 126, type |-> "int", min |-> 1, max |-> 5]],
     mode_map |->
        [hubitat_to_tuya |-> [cool |-> "cold", heat |-> "hot", dry |-> "wet",
                              fan |-> "wind"],
         tuya_to_hubitat |-> [cold |-> "cool", hot |-> "heat", wet |-> "dry",
                              wind |-> "fan"]],
     fan_map |->
        [hubitat_to_tuya |-> [turbo |-> "strong"],
         tuya_to_hubitat |-> [strong |-> "turbo"]]]

BareConfig ==
    [datapoints |->
        [power |-> [dp |-> 1, type |-> "bool"],
         target_temp |-> [dp |-> 2, type |-> "int", min |-> 60, max |-> 90],
         mode |-> [dp |-> 4, type |-> "enum"],
         vert_position |-> [dp |-> 126, type |-> "int"]],
     mode_map |-> EmptyMap,
     fan_map |-> EmptyMap]

Configs == {PioneerConfig, BareConfig}

\* DATAPOINTS = DPID_CONFIG.get('datapoints', {}), and the two vocabulary
\* maps in the direction dir
DATAPOINTS == config.datapoints
MODE_MAP(dir) == IF dir \in DOMAIN config.mode_map THEN config.mode_map[dir] ELSE EmptyMap
FAN_MAP(dir) == IF dir \in DOMAIN config.fan_map THEN config.fan_map[dir] ELSE EmptyMap

\* m.get(k, k) on a vocabulary map
MapGetSkipped(m, k) == k

MapGet(m, k) == IF k \in DOMAIN m THEN m[k] ELSE k

\* dp_info.get(k, default) on a datapoint descriptor
DescGet(dp_info, k, default) == IF k \in DOMAIN dp_info THEN dp_info[k] ELSE default

(***************************************************************************)
(* CommandTranslator: send_command up to its call of device_conn.set_value. *)
(* The result is what the handler does with the request: it raises          *)
(* HTTPException(400) (detail, and the valid values the detail lists), it    *)
(* lets an exception of the conversion escape (exc), or it calls             *)
(* device_conn.set_value(dp, value).                                         *)
(***************************************************************************)
NoValue == StrV("")
HTTPException400(detail, valid) ==
    [kind |-> "HTTPException", detail |-> detail, valid |-> valid,
     dp |-> 0, value |-> NoValue]
Escapes(exc) ==
    [kind |-> "exception", detail |-> exc, valid |-> {}, dp |-> 0,
     value |-> NoValue]
CallsSetValue(dp, value) ==
    [kind |-> "set_value", detail |-> "", valid |-> {}, dp |-> dp,
     value |-> value]

\* bool(value) of a value that is no str
Truthy(value) == value.t = "inf" \/ value.n # 0

\* float(value): a fraction, inf, or a ValueError
ToFloat(value) ==
    CASE value.t = "str" ->
            IF Has(FloatLiterals, value.s)
               THEN [kind |-> "finite", r |-> Get(FloatLiterals, value.s)]
               ELSE [kind |-> "ValueError", r |-> Rat(0, 1)]
      [] value.t = "inf" -> [kind |-> "inf", r |-> Rat(0, 1)]
      [] value.t = "float" -> [kind |-> "finite", r |-> Rat(value.n, 100)]
      [] OTHER -> [kind |-> "finite", r |-> Rat(value.n, 1)]

Min(a, b) == IF a < b THEN a ELSE b
Max(a, b) == IF a > b THEN a ELSE b

\* value = max(min_val, min(max_val, value))
Clamp(min_val, max_val, value) == Max(min_val, Min(max_val, value))

\* the default bounds of target_temp, and the factor of its raw value
DefaultMin == 61
DefaultMax == 86
Scale == 10

\* elif dp_type == 'int': if command == 'target_temp': ...
TargetTemp(dp_info, value) ==
    LET temp == ToFloat(value)
        temp_f == IF temp_unit = "C" THEN celsius_to_fahrenheit(temp.r)
                                     ELSE temp.r
        min_val == DescGet(dp_info, "min", DefaultMin) * Scale
        max_val == DescGet(dp_info, "max", DefaultMax) * Scale
    IN  CASE temp.kind = "ValueError" -> Escapes("ValueError")
          [] temp.kind = "inf" -> Escapes("OverflowError")
          [] OTHER ->
                CallsSetValue(dp_info.dp,
                    IntV(Clamp(min_val, max_val,
                              Trunc(Rat(Scale * temp_f.num, temp_f.den)))))

\* else: value = int(value)
IntValue(dp_info, value) ==
    CASE value.t = "str" ->
            IF Has(IntLiterals, value.s)
               THEN CallsSetValue(dp_info.dp, IntV(Get(IntLiterals, value.s)))
               ELSE Escapes("ValueError")
      [] value.t = "inf" -> Escapes("OverflowError")
      [] value.t = "float" -> CallsSetValue(dp_info.dp, IntV(Trunc(Rat(value.n, 100))))
      [] OTHER -> CallsSetValue(dp_info.dp, IntV(value.n))

\* elif dp_type == 'enum': the vocabulary map of mode or fan, then the
\* declared values
EnumValue(command, dp_info, value) ==
    LET map == IF command = "mode" THEN MODE_MAP("hubitat_to_tuya")
               ELSE IF command = "fan" THEN FAN_MAP("hubitat_to_tuya")
               ELSE EmptyMap
        token == IF value.t = "str" THEN StrV(MapGet(map, value.s)) ELSE value
        valid_values == DescGet(dp_info, "values", {})
    IN  IF valid_values # {} /\ ~(token.t = "str" /\ token.s \in valid_values)
           THEN HTTPException400("Invalid value", valid_values)
           ELSE CallsSetValue(dp_info.dp, token)

\* DATAPOINTS.get(command): the descriptor, or None (here the empty
\* descriptor, which "if not dp_info" treats alike)
NoDescriptor == EmptyMap
LookupDefaulted(command) ==
    IF command \in DOMAIN DATAPOINTS THEN DATAPOINTS[command] ELSE [dp |-> 0]

Lookup(command) ==
    IF command \in DOMAIN DATAPOINTS THEN DATAPOINTS[command] ELSE NoDescriptor

send_command(request) ==
    LET command == Lower(request.command)
        value == request.value
        dp_info == Lookup(command)
    IN  IF DOMAIN dp_info = {}
           THEN HTTPException400("Unknown command", {})
           ELSE LET dp_type == DescGet(dp_info, "type", "string")
                IN  CASE dp_type = "bool" ->
                            CallsSetValue(dp_info.dp,
                                IF value.t = "str"
                                   THEN BoolV(Lower(value.s) \in {"true", "1", "on", "yes"})
                                   ELSE BoolV(Truthy(value)))
                      [] dp_type = "int" ->
                            IF command = "target_temp"
                               THEN TargetTemp(dp_info, value)
                               ELSE IntValue(dp_info, value)
                      [] dp_type = "enum" -> EnumValue(command, dp_info, value)
                      [] OTHER -> CallsSetValue(dp_info.dp, value)

(***************************************************************************)
(* StatusTranslator: parse_status.  A StatusResponse is online, the        *)
(* mapping of the optional fields that are not None, and raw_dps;          *)
(* temperatures are in tenths of the display unit.                         *)
(***************************************************************************)
StatusResponseNoEcho(online, fields, raw_dps) ==
    [online |-> online, fields |-> fields, raw_dps |-> EmptyDps]

StatusResponse(online, fields, raw_dps) ==
    [online |-> online, fields |-> fields, raw_dps |-> raw_dps]

\* a field of the response: absent when the value is None
FieldDefaulted(name, present, value) == {<<name, value>>}

Field(name, present, value) == IF present THEN {<<name, value>>} ELSE {}

\* round(x, 1) if x else None
TempField(name, present, x) == Field(name, present /\ x.num # 0, Round1(x))

\* raw_dps.get(k) and the vocabulary map, for the str fields mode and fan
Mapped(raw_dps, k, map) == MapGet(map, GetOr(raw_dps, k, None))

parse_status(raw_dps) ==
    IF raw_dps = EmptyDps
       THEN StatusResponse(FALSE, {}, EmptyDps)
       ELSE LET target_temp ==
                    LET f == Rat(GetOr(raw_dps, "2", 0), Scale)
                    IN  IF temp_unit = "C" THEN fahrenheit_to_celsius(f) ELSE f
                current_temp ==
                    LET c == Rat(GetOr(raw_dps, "3", 0), 1)
                    IN  IF temp_unit = "F" THEN celsius_to_fahrenheit(c) ELSE c
                hubitat_mode == Mapped(raw_dps, "4", MODE_MAP("tuya_to_hubitat"))
                hubitat_fan == Mapped(raw_dps, "5", FAN_MAP("tuya_to_hubitat"))
            IN  StatusResponse(TRUE,
                    Field("power", Has(raw_dps, "1"), GetOr(raw_dps, "1", FALSE))
                    \cup Field("mode", hubitat_mode # None, hubitat_mode)
                    \cup TempField("target_temp", Has(raw_dps, "2"), target_temp)
                    \cup TempField("current_temp", Has(raw_dps, "3"), current_temp)
                    \cup Field("fan", hubitat_fan # None, hubitat_fan)
                    \cup Field("humidity", Has(raw_dps, "18"), GetOr(raw_dps, "18", 0))
                    \cup Field("vert_swing", Has(raw_dps, "113"), GetOr(raw_dps, "113", None))
                    \cup Field("horiz_swing", Has(raw_dps, "114"), GetOr(raw_dps, "114", None))
                    \cup Field("filter_dirty", Has(raw_dps, "131"), GetOr(raw_dps, "131", FALSE)),
                    raw_dps)

(***************************************************************************)
(* The frame of a thread: pc is its position, op the manager call it is    *)
(* in, force / tnow / status the parameter and locals of get_status, io    *)
(* the outcome of device.set_value, ret / retStatus the value returned by  *)
(* connect or set_value / by get_status.  start and fetched are history:   *)
(* the counters when the get_status call began, and whether the call       *)
(* obtained a mapping from the device.  cmd is history of send_command:    *)
(* the index of the write that set_value acknowledged to this request      *)
(* (0 in a call that is not the status refresh of a command); queries is  *)
(* history of get_status: the self.device.status() calls it has made.      *)
(***************************************************************************)
IdleFrame ==
    [pc |-> "idle", op |-> "none", force |-> FALSE, tnow |-> 0,
     status |-> EmptyStatus, io |-> "none", ret |-> FALSE,
     retStatus |-> EmptyStatus, start |-> NoStart, fetched |-> FALSE,
     cmd |-> 0, queries |-> 0]

\* the last application of a translator: of fn ("none" before the first), to
\* request (send_command) or raw_dps (parse_status), and, once it is done,
\* with result (send_command) or status (parse_status)
NoRequest == [command |-> "", value |-> NoValue]
NoResult == [kind |-> "none", detail |-> "", valid |-> {}, dp |-> 0, value |-> NoValue]
Pending(fn, request, raw_dps) ==
    [fn |-> fn, request |-> request, raw_dps |-> raw_dps, done |-> FALSE,
     result |-> NoResult, status |-> StatusResponse(FALSE, {}, EmptyDps)]
NotApplied == Pending("none", NoRequest, EmptyDps)

(***************************************************************************)
(* The state when the service starts taking requests: the manager has been *)
(* constructed (no handle, lock free, empty cache stamped 0) and lifespan() *)
(* has made its startup connect(), which left a first handle or, when the  *)
(* credentials are missing or the construction failed, none.               *)
(***************************************************************************)
Init ==
    /\ creds \in BOOLEAN
    /\ device \in (IF creds THEN {NoDevice, 1} ELSE {NoDevice})
    /\ lock = NoThread
    /\ last_status = EmptyStatus
    /\ last_status_time = 0
    /\ now = StartTime
    /\ fr = [t \in Threads |-> IdleFrame]
    /\ nCalls = 0
    /\ nHandles = device
    /\ nWrites = 0
    /\ nQueries = 0
    /\ lastTrue = 0
    /\ readPending = FALSE
    /\ temp_unit = "F"
    /\ config = PioneerConfig
    /\ applied = NotApplied

(***************************************************************************)
(* threading.Lock: acquire blocks until the lock is free, whoever holds    *)
(* it (the lock is not reentrant).                                         *)
(***************************************************************************)
CanAcquireAlways(t) == TRUE

CanAcquire(t) == lock = NoThread

\* the cache is fresh for a call whose clock reading is n
FreshConnected(n) == device # NoDevice /\ (n - last_status_time) < TTL

Fresh(n) == (n - last_status_time) < TTL

\* if not force_refresh and (now - self.last_status_time) < self.status_cache_ttl
UseCacheUnforced(f, n) == Fresh(n)

UseCache(f, n) == ~f /\ Fresh(n)

\* set_value marks the cache stale
InvalidateKept(ts) == ts

Invalidate(ts) == 0

\* the frame f at position p
At(f, p) == [f EXCEPT !.pc = p]

\* the frame f of a get_status call as self.device.status() is called
Query(f) == [f EXCEPT !.pc = "gs_query", !.queries = @ + 1]

\* the frame f after the call has returned: only its result is left, until
\* the thread begins its next call
Left(f) == [IdleFrame EXCEPT !.ret = f.ret, !.retStatus = f.retStatus]

\* the frame after set_value has returned True to send_command, whose write
\* was the w-th: the handler goes on to time.sleep(0.5) and the refresh
Slept(w) == [IdleFrame EXCEPT !.pc = "cmd_sleep", !.ret = TRUE, !.cmd = w]

\* the frame of a get_status(f) call that reads the clock as n, made for the
\* command whose write was the w-th (0: for no command)
GetStatusFrame(f, n, w) ==
    [IdleFrame EXCEPT !.op = "get_status",
                      !.force = f,
                      !.tnow = n,
                      !.cmd = w,
                      !.start = [tr |-> lastTrue, gen |-> nHandles,
                                 first |-> (~f /\ readPending)],
                      !.pc = IF UseCache(f, n) THEN "gs_cached" ELSE "gs_lock"]

\* a thread that is in no call begins one
BeginCall(t) ==
    /\ fr[t].pc = "idle"
    /\ nCalls < MaxCalls
    /\ nCalls' = nCalls + 1
    /\ UNCHANGED tvars

(***************************************************************************)
(* connect() returns ok to the call f it was made from, with the lock left *)
(* as lk.  Called from the service it simply returns; called from          *)
(* get_status / set_value the caller goes on: with False it returns {} /   *)
(* False, leaving its own "with self.lock" block, with True it starts the  *)
(* device call.                                                            *)
(***************************************************************************)
ConnectReturn(t, f, ok, lk) ==
    CASE f.op = "connect" ->
            /\ fr' = [fr EXCEPT ![t] = Left([f EXCEPT !.ret = ok])]
            /\ lock' = lk
            /\ UNCHANGED nWrites
      [] f.op = "get_status" ->
            /\ IF ok THEN /\ fr' = [fr EXCEPT ![t] = Query(f)]
                          /\ lock' = lk
                     ELSE /\ fr' = [fr EXCEPT ![t] = Left([f EXCEPT !.retStatus = EmptyStatus])]
                          /\ lock' = NoThread
            /\ UNCHANGED nWrites
      [] OTHER ->
            IF ok THEN /\ fr' = [fr EXCEPT ![t] = At(f, "sv_send")]
                       /\ lock' = lk
                       /\ nWrites' = nWrites + 1
                  ELSE /\ fr' = [fr EXCEPT ![t] = Left([f EXCEPT !.ret = FALSE])]
                       /\ lock' = NoThread
                       /\ UNCHANGED nWrites

(***************************************************************************)
(* Entry of connect() from the call f, with the lock currently as lk:      *)
(*   if not all([DEVICE_ID, LOCAL_KEY, DEVICE_IP]): return False           *)
(* otherwise the thread goes on to connect's own "with self.lock".         *)
(***************************************************************************)
ConnectEnter(t, f, lk) ==
    IF creds
       THEN /\ fr' = [fr EXCEPT ![t] = At(f, "cn_lock")]
            /\ lock' = lk
            /\ UNCHANGED nWrites
       ELSE ConnectReturn(t, f, FALSE, lk)

\* the service calls device_conn.connect() (POST /reconnect)
ConnectCall(t) ==
    /\ BeginCall(t)
    /\ ConnectEnter(t, [IdleFrame EXCEPT !.op = "connect"], lock)
    /\ UNCHANGED <<creds, nQueries, device, last_status, last_status_time, now,
                   nHandles, lastTrue, readPending>>

\* with self.lock: (connect); the handle construction starts
ConnectAcquire(t) ==
    /\ fr[t].pc = "cn_lock"
    /\ CanAcquire(t)
    /\ lock' = t
    /\ fr' = [fr EXCEPT ![t] = At(@, "cn_construct")]
    /\ UNCHANGED <<creds, nQueries, device, last_status, last_status_time, now, nCalls,
                   nHandles, nWrites, lastTrue, readPending>>
    /\ UNCHANGED tvars

\* except Exception: self.device = None (connect)
ConstructFailedKept(d) == d

ConstructFailed(d) == NoDevice

\* tinytuya.Device(...) / set_version(...) ends: a new handle, or an
\* exception (self.device = None); the with block is left
ConnectConstruct(t) ==
    /\ fr[t].pc = "cn_construct"
    /\ \E ok \in BOOLEAN :
          /\ IF ok
                THEN /\ device' = nHandles + 1
                     /\ nHandles' = nHandles + 1
                ELSE /\ device' = ConstructFailed(device)
                     /\ UNCHANGED nHandles
          /\ ConnectReturn(t, fr[t], ok, NoThread)
    /\ UNCHANGED <<creds, nQueries, last_status, last_status_time, now, nCalls,
                   lastTrue, readPending>>
    /\ UNCHANGED tvars

\* get_status(force_refresh): now = time.time(), the clock having advanced
\* to n since it was last read;
\* if not force_refresh and (now - self.last_status_time) < self.status_cache_ttl
GetStatusCall(t, f, n) ==
    /\ BeginCall(t)
    /\ now' = n
    /\ fr' = [fr EXCEPT ![t] = GetStatusFrame(f, n, 0)]
    /\ readPending' = (readPending /\ f)
    /\ UNCHANGED <<creds, nQueries, device, lock, last_status, last_status_time,
                   nHandles, nWrites, lastTrue>>

\* return self.last_status
GetStatusCached(t) ==
    /\ fr[t].pc = "gs_cached"
    /\ fr' = [fr EXCEPT ![t] = Left([@ EXCEPT !.retStatus = last_status])]
    /\ UNCHANGED <<creds, nQueries, device, lock, last_status, last_status_time, now,
                   nCalls, nHandles, nWrites, lastTrue, readPending>>
    /\ UNCHANGED tvars

\* with self.lock: (get_status); if not self.device: self.connect();
\* otherwise self.device.status() starts
GetStatusAcquire(t) ==
    /\ fr[t].pc = "gs_lock"
    /\ CanAcquire(t)
    /\ IF device = NoDevice
          THEN ConnectEnter(t, fr[t], t)
          ELSE /\ fr' = [fr EXCEPT ![t] = Query(@)]
               /\ lock' = t
               /\ UNCHANGED nWrites
    /\ UNCHANGED <<creds, nQueries, device, last_status, last_status_time, now, nCalls,
                   nHandles, lastTrue, readPending>>
    /\ UNCHANGED tvars

\* self.device.status() ends: a response with 'dps', a response without,
\* or an exception
GetStatusQuery(t) ==
    /\ fr[t].pc = "gs_query"
    /\ \/ \E d \in DpsValues :
             /\ fr' = [fr EXCEPT ![t] =
                         [@ EXCEPT !.status = Snapshot(d, nWrites, device,
                                                       fr[t].force,
                                                       nQueries + 1, now),
                                   !.fetched = TRUE,
                                   !.pc = "gs_store"]]
             /\ nQueries' = nQueries + 1
             /\ UNCHANGED <<device, lock>>
       \/ /\ fr' = [fr EXCEPT ![t] = Left([@ EXCEPT !.retStatus = EmptyStatus])]
          /\ lock' = NoThread
          /\ UNCHANGED <<device, nQueries>>
       \/ /\ device' = NoDevice
          /\ fr' = [fr EXCEPT ![t] = Left([@ EXCEPT !.retStatus = EmptyStatus])]
          /\ lock' = NoThread
          /\ UNCHANGED nQueries
    /\ UNCHANGED <<creds, last_status, last_status_time, now, nCalls,
                   nHandles, nWrites, lastTrue, readPending>>
    /\ UNCHANGED tvars

\* self.last_status = status['dps']
GetStatusStore(t) ==
    /\ fr[t].pc = "gs_store"
    /\ last_status' = fr[t].status
    /\ fr' = [fr EXCEPT ![t] = At(@, "gs_stamp")]
    /\ UNCHANGED <<creds, nQueries, device, lock, last_status_time, now, nCalls,
                   nHandles, nWrites, lastTrue, readPending>>
    /\ UNCHANGED tvars

\* the value get_status stores as self.last_status_time: its local now, read
\* from the clock when the call began
CaptureTimeAtStore(f) == now

CaptureTime(f) == f.tnow

\* self.last_status_time = now; return self.last_status
GetStatusStamp(t) ==
    /\ fr[t].pc = "gs_stamp"
    /\ last_status_time' = CaptureTime(fr[t])
    /\ fr' = [fr EXCEPT ![t] = Left([@ EXCEPT !.retStatus = last_status])]
    /\ lock' = NoThread
    /\ UNCHANGED <<creds, nQueries, device, last_status, now, nCalls, nHandles, nWrites,
                   lastTrue, readPending>>
    /\ UNCHANGED tvars

\* send_command, past the translation of the request: set_value(dp, value)
SetValueCall(t) ==
    /\ BeginCall(t)
    /\ fr' = [fr EXCEPT ![t] = [IdleFrame EXCEPT !.op = "set_value", !.pc = "sv_lock"]]
    /\ UNCHANGED <<creds, nQueries, device, lock, last_status, last_status_time, now,
                   nHandles, nWrites, lastTrue, readPending>>

\* with self.lock: (set_value); if not self.device: self.connect();
\* otherwise self.device.set_value(dp, value) starts
SetValueAcquire(t) ==
    /\ fr[t].pc = "sv_lock"
    /\ CanAcquire(t)
    /\ IF device = NoDevice
          THEN ConnectEnter(t, fr[t], t)
          ELSE /\ fr' = [fr EXCEPT ![t] = At(@, "sv_send")]
               /\ lock' = t
               /\ nWrites' = nWrites + 1
    /\ UNCHANGED <<creds, nQueries, device, last_status, last_status_time, now, nCalls,
                   nHandles, lastTrue, readPending>>
    /\ UNCHANGED tvars

\* self.device.set_value(dp, value) ends: a result, None, or an exception
SetValueSend(t) ==
    /\ fr[t].pc = "sv_send"
    /\ \/ \E r \in {"ack", "none"} :
             /\ fr' = [fr EXCEPT ![t] = [@ EXCEPT !.io = r, !.pc = "sv_inval"]]
             /\ UNCHANGED <<device, lock>>
       \/ /\ device' = NoDevice
          /\ fr' = [fr EXCEPT ![t] = Left([@ EXCEPT !.ret = FALSE])]
          /\ lock' = NoThread
    /\ UNCHANGED <<creds, nQueries, last_status, last_status_time, now, nCalls,
                   nHandles, nWrites, lastTrue, readPending>>
    /\ UNCHANGED tvars

\* self.last_status_time = 0; return result is not None.  With True,
\* send_command goes on to its status refresh; with False it raises
\* HTTPException(500).
SetValueInvalidate(t) ==
    /\ fr[t].pc = "sv_inval"
    /\ last_status_time' = Invalidate(last_status_time)
    /\ fr' = [fr EXCEPT ![t] = IF fr[t].io = "ack"
                                  THEN Slept(nWrites)
                                  ELSE Left([@ EXCEPT !.ret = FALSE])]
    /\ lastTrue' = IF fr[t].io = "ack" THEN nWrites ELSE lastTrue
    /\ readPending' = (readPending \/ fr[t].io = "ack")
    /\ lock' = NoThread
    /\ UNCHANGED <<creds, nQueries, device, last_status, now, nCalls, nHandles, nWrites>>
    /\ UNCHANGED tvars

\* send_command after time.sleep(0.5):
\* raw_dps = device_conn.get_status(force_refresh=True), the clock having
\* advanced to n
CommandRefresh(t, n) ==
    /\ fr[t].pc = "cmd_sleep"
    /\ nCalls < MaxCalls
    /\ nCalls' = nCalls + 1
    /\ now' = n
    /\ fr' = [fr EXCEPT ![t] = GetStatusFrame(TRUE, n, fr[t].cmd)]
    /\ UNCHANGED <<creds, nQueries, device, lock, last_status, last_status_time,
                   nHandles, nWrites, lastTrue, readPending>>
    /\ UNCHANGED tvars

\* the steps of a call that has begun
Step(t) ==
    \/ ConnectAcquire(t)
    \/ ConnectConstruct(t)
    \/ GetStatusCached(t)
    \/ GetStatusAcquire(t)
    \/ GetStatusQuery(t)
    \/ GetStatusStore(t)
    \/ GetStatusStamp(t)
    \/ SetValueAcquire(t)
    \/ SetValueSend(t)
    \/ SetValueInvalidate(t)

Next ==
    \/ \E t \in Threads : ConnectCall(t)
    \/ \E t \in Threads : \E f \in BOOLEAN : \E n \in now..MaxTime :
          GetStatusCall(t, f, n)
    \/ \E t \in Threads : SetValueCall(t)
    \/ \E t \in Threads : \E n \in now..MaxTime : CommandRefresh(t, n)
    \/ \E t \in Threads : Step(t)

Spec == Init /\ [][Next]_vars

\* Every thread that can take a step of its call eventually takes one (the
\* interpreter schedules every runnable thread, and every device call ends).
FairSpec == Spec /\ \A t \in Threads : WF_vars(Step(t))

(***************************************************************************)
(* The translators on their own: TEMP_UNIT, the configuration and the      *)
(* argument (a request for send_command, a raw mapping for parse_status)   *)
(* are drawn at the start, and the one step applies the translator to its  *)
(* argument.  The connection manager stays as constructed.                 *)
(***************************************************************************)
MaxTempTenths == 900     \* target_temp inputs run from 0.0 to this, in tenths

\* request.command
Commands ==
    {"power", "target_temp", "current_temp", "mode", "fan", "vert_swing",
     "eco_mode", "vert_position", "MODE", "Target_Temp", "bogus"}

\* request.value
Values ==
    {BoolV(TRUE), BoolV(FALSE), Inf, IntV(3), IntV(74), IntV(200), IntV(0 - 40),
     FloatV(7415), FloatV(2005), FloatV(0 - 1234)}
    \cup {StrV(s) : s \in {"on", "ON", "off", "cool", "cold", "turbo", "full",
                          "invalid_mode", "74", "3", "3.5", "abc"}}
    \cup {FloatV(10 * k) : k \in 0..MaxTempTenths}

\* the values a status response of the device may carry under each key
DpsChoices ==
    {<<"1", TRUE>>, <<"2", 0>>, <<"2", 320>>, <<"2", 740>>, <<"3", 0>>,
     <<"3", 23>>, <<"4", "cold">>, <<"4", "turbo">>, <<"5", "strong">>,
     <<"18", 0>>, <<"113", "off">>, <<"114", "off">>, <<"131", FALSE>>}

\* raw_dps: at most one value under each key
RawMappings ==
    {d \in SUBSET DpsChoices : \A p \in d : \A q \in d : p[1] = q[1] => p = q}

TransInit ==
    /\ creds = TRUE
    /\ device = NoDevice
    /\ lock = NoThread
    /\ last_status = EmptyStatus
    /\ last_status_time = 0
    /\ now = StartTime
    /\ fr = [t \in Threads |-> IdleFrame]
    /\ nCalls = 0
    /\ nHandles = 0
    /\ nWrites = 0
    /\ nQueries = 0
    /\ lastTrue = 0
    /\ readPending = FALSE
    /\ temp_unit \in {"F", "C"}
    /\ config \in Configs
    /\ applied \in
          {Pending("send_command", [command |-> command, value |-> value], EmptyDps) :
              command \in Commands, value \in Values}
          \cup {Pending("parse_status", NoRequest, raw_dps) : raw_dps \in RawMappings}

\* POST /command (CommandRequest(command, value)), up to the set_value call
SendCommand ==
    /\ applied.fn = "send_command"
    /\ ~applied.done
    /\ applied' = [applied EXCEPT !.done = TRUE,
                                  !.result = send_command(applied.request)]
    /\ UNCHANGED <<mvars, temp_unit, config>>

\* parse_status(raw_dps), on the mapping get_status returned
ParseStatus ==
    /\ applied.fn = "parse_status"
    /\ ~applied.done
    /\ applied' = [applied EXCEPT !.done = TRUE,
                                  !.status = parse_status(applied.raw_dps)]
    /\ UNCHANGED <<mvars, temp_unit, config>>

TransNext ==
    \/ SendCommand
    \/ ParseStatus

TransSpec == TransInit /\ [][TransNext]_vars

(***************************************************************************)
(* Properties of the connection manager.                                   *)
(***************************************************************************)

\* thread t has a call of the device link in flight
InFlight(t) == fr[t].pc \in {"cn_construct", "gs_query", "sv_send"}

\* thread t is blocked in "with self.lock"
Waiting(t) == fr[t].pc \in {"cn_lock", "gs_lock", "sv_lock"}

\* thread t is in a get_status(force_refresh=False) call
Unforced(t) == fr[t].op = "get_status" /\ ~fr[t].force

\* thread t is in no call of the manager
Outside(f) == f.pc \in {"idle", "cmd_sleep"}

\* the step is one in which the call of thread t returns
Returns(t) == ~Outside(fr[t]) /\ Outside(fr'[t])

\* C1: under every interleaving of connect, get_status and set_value calls,
\* at most one call of the device link (handle construction, status query,
\* value write) is in flight.
C1_OneInFlight == Cardinality({t \in Threads : InFlight(t)}) <= 1

\* a device call is in flight while another caller waits for the lock
C1_Witness ==
    \E t \in Threads : \E u \in Threads \ {t} : InFlight(t) /\ Waiting(u)

\* C2: a get_status call that finds the manager Disconnected after a failed
\* device call (a handle had been built and is gone) makes its one reconnect
\* attempt and then returns.
C2_ReconnectReturns ==
    \A t \in Threads :
        (fr[t].op = "get_status" /\ fr[t].pc = "cn_lock" /\ nHandles > 0)
            ~> (fr[t].pc = "idle")

\* C3: no caller ever waits for the lock forever; in particular no caller
\* waits for a lock that it holds itself.
C3_NoSelfWait == \A t \in Threads : ~(Waiting(t) /\ lock = t)

\* C4: two get_status(force_refresh=False) calls that begin within one TTL
\* window, with no device write at all, do not both invoke the status query
\* of the device link: while the cache holds the mapping that one of them
\* fetched and stamped, the other, begun less than a TTL apart, has no query
\* in flight.
C4_OneQueryPerWindow ==
    \A t \in Threads :
        (/\ Unforced(t)
         /\ last_status.dps # EmptyDps
         /\ ~last_status.forced
         /\ fr[t].tnow - last_status_time < TTL
         /\ last_status_time - fr[t].tnow < TTL
         /\ nWrites = 0)
            => fr[t].pc # "gs_query"

\* C5 (as amended): a get_status(force_refresh=False) call that begins after
\* a set_value call has returned True never returns a mapping read from the
\* device before that write: a non-empty mapping it returns was read after
\* the write, by this call or by another caller.
C5_NoStaleAfterWrite ==
    [][\A t \in Threads :
          (/\ Returns(t)
           /\ Unforced(t)
           /\ fr[t].start.tr > 0
           /\ fr'[t].retStatus.dps # EmptyDps)
              => fr'[t].retStatus.wr >= fr[t].start.tr]_vars

\* such a call is about to be served, from the cache, a mapping that another
\* caller read after the write
C5_Witness ==
    \E t \in Threads :
        /\ Unforced(t)
        /\ fr[t].pc = "gs_cached"
        /\ fr[t].start.tr > 0
        /\ last_status.dps # EmptyDps
        /\ last_status.wr >= fr[t].start.tr

\* C5 (as stated): the first get_status(force_refresh=False) call to begin
\* after a set_value call returned True performs a fresh device query, or
\* returns an empty mapping.
C5_FirstReadQueries ==
    [][\A t \in Threads :
          (Returns(t) /\ Unforced(t) /\ fr[t].start.first)
              => (fr[t].fetched \/ fr'[t].retStatus.dps = EmptyDps)]_vars

\* C6: a get_status(force_refresh=False) call never returns a mapping that
\* was read through a handle older than the one in place when the call
\* began: the cache does not survive a reconnect.
C6_CacheDiesWithHandle ==
    [][\A t \in Threads :
          (Returns(t) /\ Unforced(t) /\ fr'[t].retStatus.dps # EmptyDps)
              => fr'[t].retStatus.h >= fr[t].start.gen]_vars

\* C7: every read and every write of the cached mapping or of its timestamp
\* is done by the thread that holds the lock.
C7_CacheUnderLock ==
    \A t \in Threads :
        fr[t].pc \in {"gs_cached", "gs_store", "gs_stamp", "sv_inval"}
            => lock = t

\* C8: when the status query of a Connected manager ends, get_status either
\* replaces the cache by the new mapping and timestamp and returns that
\* mapping, or (every failure) leaves the manager Disconnected and returns an
\* empty mapping.
C8_QueryOutcome ==
    [][\A t \in Threads :
          /\ (fr[t].pc = "gs_query" /\ Returns(t))
                => (device' = NoDevice /\ fr'[t].retStatus = EmptyStatus)
          /\ (fr[t].pc = "gs_stamp" /\ Returns(t))
                => /\ last_status' = fr[t].status
                   /\ last_status_time' = fr[t].tnow
                   /\ fr'[t].retStatus = fr[t].status]_vars

\* C9: when the write of a Connected manager ends, set_value returns True
\* only if the link acknowledged it, and whenever it returns False the
\* manager is Disconnected.
C9_WriteOutcome ==
    [][\A t \in Threads :
          (fr[t].pc \in {"sv_send", "sv_inval"} /\ Returns(t))
             => /\ fr'[t].ret => fr[t].io = "ack"
                /\ ~fr'[t].ret => device' = NoDevice]_vars

\* C10: a set_value call that finds the manager Disconnected makes its one
\* connect attempt and returns (False with nothing sent, or after sending
\* the value once).
C10_SetValueReturns ==
    \A t \in Threads :
        (fr[t].op = "set_value" /\ fr[t].pc = "cn_lock") ~> (fr[t].pc = "idle")

\* C11: whenever a connect() call made by the service ends, it returns a
\* value (no exception leaves it): True with the newly built handle in place
\* when the construction succeeded, False with no handle in place when the
\* construction raised or the credentials are missing.
C11_ConnectOutcome ==
    [][\A t \in Threads :
          /\ (ConnectCall(t) /\ ~creds)
                => (fr'[t].pc = "idle" /\ ~fr'[t].ret /\ device' = NoDevice)
          /\ (fr[t].op = "connect" /\ fr[t].pc = "cn_construct" /\ fr'[t] # fr[t])
                => /\ fr'[t].pc = "idle"
                   /\ IF nHandles' # nHandles
                         THEN fr'[t].ret /\ device' = nHandles' /\ device' # NoDevice
                         ELSE ~fr'[t].ret /\ device' = NoDevice]_vars

\* a reconnect has replaced the startup handle and returned True (no write
\* was sent, so the True is connect's)
C11_Witness ==
    \E t \in Threads :
        /\ fr[t].pc = "idle"
        /\ fr[t].ret
        /\ nWrites = 0
        /\ nHandles >= 2
        /\ device = nHandles

\* C20: the mapping that the status refresh of a command returns, after
\* set_value has returned True for the command's write, is the empty
\* (offline) mapping or a mapping that this forced refresh itself read from
\* the device after that write; it is never a mapping taken from the cache,
\* whatever the other callers do in between.
C20_CommandStatusRefreshed ==
    [][\A t \in Threads :
          (Returns(t) /\ fr[t].cmd > 0 /\ fr'[t].retStatus.dps # EmptyDps)
              => /\ fr[t].fetched
                 /\ fr'[t].retStatus.forced
                 /\ fr'[t].retStatus.wr >= fr[t].cmd
                 /\ fr'[t].retStatus = fr[t].status]_vars

\* the refresh of a command has read the device and is about to return,
\* although the cache was fresh when it began (another caller had refetched
\* after the write)
C20_Witness ==
    \E t \in Threads :
        /\ fr[t].cmd > 0
        /\ fr[t].pc = "gs_stamp"
        /\ fr[t].status.wr >= fr[t].cmd
        /\ last_status_time > 0
        /\ fr[t].tnow - last_status_time < TTL

\* C21: a get_status(force_refresh=True) call never returns the cached
\* mapping without I/O: a forced call that returns has never been at the
\* cached return, has called self.device.status() at most once, and has
\* called it exactly once unless it found no handle and connect() failed
\* (then it returns {}); this holds whether or not the cache was fresh.
C21_ForcedQueriesOnce ==
    [][\A t \in Threads :
          (Returns(t) /\ fr[t].op = "get_status" /\ fr[t].force)
              => /\ fr[t].pc # "gs_cached"
                 /\ fr[t].queries <= 1
                 /\ fr[t].queries = 0
                       => /\ device = NoDevice
                          /\ fr'[t].retStatus = EmptyStatus
                 /\ fr'[t].retStatus.dps # EmptyDps
                       => /\ fr[t].queries = 1
                          /\ fr'[t].retStatus.forced]_vars

\* a forced call of the service (not a command's refresh) has queried the
\* device once although the cache was fresh when it began
C21_Witness ==
    \E t \in Threads :
        /\ fr[t].op = "get_status"
        /\ fr[t].force
        /\ fr[t].cmd = 0
        /\ fr[t].queries = 1
        /\ fr[t].pc = "gs_stamp"
        /\ device # NoDevice
        /\ last_status_time > 0
        /\ fr[t].tnow - last_status_time < TTL

\* C22: a get_status whose device query fails (exception, or a response
\* without 'dps') returns {} and leaves the cached mapping and its timestamp
\* as they were; a get_status(force_refresh=False) that begins inside the
\* TTL of the stored timestamp goes to the cached return whether or not a
\* handle is held, and returns the cached mapping from there.
C22_FailedQueryKeepsCache ==
    [][\A t \in Threads :
          /\ (fr[t].pc = "gs_query" /\ Returns(t))
                => /\ fr'[t].retStatus = EmptyStatus
                   /\ last_status' = last_status
                   /\ last_status_time' = last_status_time
          /\ (fr[t].pc = "idle" /\ fr'[t].op = "get_status" /\ ~fr'[t].force
                 /\ fr'[t].tnow - last_status_time < TTL)
                => fr'[t].pc = "gs_cached"
          /\ (fr[t].pc = "gs_cached" /\ Returns(t))
                => fr'[t].retStatus = last_status]_vars

\* an unforced call is at the cached return of a mapping that was fetched
\* through a handle since dropped, with no handle held and no write sent
C22_Witness ==
    \E t \in Threads :
        /\ fr[t].pc = "gs_cached"
        /\ device = NoDevice
        /\ last_status.dps # EmptyDps
        /\ last_status.h = nHandles
        /\ nWrites = 0
        /\ fr[t].tnow - last_status_time < TTL

\* thread t has obtained a mapping from the device and has not yet assigned
\* it to self.last_status
Storing(t) == fr[t].pc = "gs_store"

\* C23: in every reachable state the cached mapping is the result of the
\* latest successful device status query (the empty mapping if there has
\* been none).  The one exception is the caller that has just obtained that
\* result and is about to assign it: it still holds the lock, its result is
\* the latest, and the cache holds the one before.  Hence an older result
\* never replaces a newer one.
C23_CacheIsLatestFetch ==
    /\ nQueries = 0 => last_status = EmptyStatus
    /\ \A t \in Threads :
          Storing(t) => /\ lock = t
                        /\ fr[t].status.seq = nQueries
                        /\ last_status.seq = nQueries - 1
    /\ (\A t \in Threads : ~Storing(t)) => last_status.seq = nQueries

\* a second fetch is about to replace the result of the first while another
\* get_status call waits for the lock
C23_Witness ==
    \E t \in Threads : \E u \in Threads \ {t} :
        /\ Storing(t)
        /\ fr[t].status.seq = 2
        /\ last_status.seq = 1
        /\ fr[u].op = "get_status"
        /\ fr[u].pc = "gs_lock"

\* C24: the timestamp stored with a snapshot is the clock reading with which
\* the fetching call began, so it is never later than the time the snapshot
\* was read from the device; and a get_status(force_refresh=False) call at
\* its cached return never returns a snapshot that was read from the device
\* TTL or more before the call began.
C24_CacheAgeBounded ==
    /\ \A t \in Threads :
          fr[t].pc \in {"gs_store", "gs_stamp"}
              => fr[t].tnow <= fr[t].status.at
    /\ last_status.dps # EmptyDps => last_status_time <= last_status.at
    /\ \A t \in Threads :
          (fr[t].pc = "gs_cached" /\ last_status.dps # EmptyDps)
              => fr[t].tnow - last_status.at < TTL

\* an unforced call is at the cached return of a snapshot that was read from
\* the device later than the timestamp stored with it (the fetching call had
\* waited for the lock)
C24_Witness ==
    \E t \in Threads :
        /\ fr[t].pc = "gs_cached"
        /\ last_status.dps # EmptyDps
        /\ last_status_time > 0
        /\ last_status_time < last_status.at
        /\ fr[t].tnow >= last_status.at

(***************************************************************************)
(* Properties of the translators.                                          *)
(***************************************************************************)

\* send_command / parse_status has been applied
Commanded == applied.fn = "send_command" /\ applied.done
Parsed == applied.fn = "parse_status" /\ applied.done

\* C12 (as amended): a request whose command name, put in lower case, is not
\* a key of the datapoint table is rejected with HTTPException(400, "Unknown
\* command") whatever its value, and set_value is not called.
C12_UnknownRejected ==
    (Commanded /\ Lower(applied.request.command) \notin DOMAIN DATAPOINTS)
        => /\ applied.result.kind = "HTTPException"
           /\ applied.result.detail = "Unknown command"

\* an unknown command with a value that a known command would have sent
C12_Witness ==
    /\ Commanded
    /\ applied.request.command = "bogus"
    /\ applied.request.value = BoolV(TRUE)
    /\ applied.result.kind = "HTTPException"

\* C12 (as stated): a request whose command name is not a key of the
\* datapoint table is rejected with a validation error whatever its value,
\* and set_value is not called.
C12_NotInTableRejected ==
    (Commanded /\ applied.request.command \notin DOMAIN DATAPOINTS)
        => applied.result.kind = "HTTPException"

\* the descriptor a request is executed against, and whether there is one
Descriptor == DATAPOINTS[Lower(applied.request.command)]
IsCommand(type) ==
    /\ Commanded
    /\ Lower(applied.request.command) \in DOMAIN DATAPOINTS
    /\ "type" \in DOMAIN Descriptor
    /\ Descriptor.type = type

\* the vocabulary map, canonical to device, that applies to the request
VocabularyMap ==
    LET maps == IF Lower(applied.request.command) = "mode" THEN config.mode_map
                ELSE IF Lower(applied.request.command) = "fan" THEN config.fan_map
                ELSE EmptyMap
    IN  IF "hubitat_to_tuya" \in DOMAIN maps THEN maps.hubitat_to_tuya ELSE EmptyMap

\* the token of the request after the translation: the entry of the map, or
\* the token itself when the map has none
TranslatedToken ==
    IF applied.request.value.s \in DOMAIN VocabularyMap
       THEN VocabularyMap[applied.request.value.s]
       ELSE applied.request.value.s

\* C13: for an enumeration command whose descriptor declares values and a
\* str token, the token is translated through the vocabulary map of the
\* command (unmapped tokens pass through); a translated token outside the
\* declared values is rejected with HTTPException(400) listing them and
\* set_value is not called, one inside them is the value set_value gets.
C13_EnumTranslatedThenChecked ==
    (/\ IsCommand("enum")
     /\ "values" \in DOMAIN Descriptor
     /\ applied.request.value.t = "str")
        => IF TranslatedToken \in Descriptor.values
              THEN /\ applied.result.kind = "set_value"
                   /\ applied.result.dp = Descriptor.dp
                   /\ applied.result.value = StrV(TranslatedToken)
              ELSE /\ applied.result.kind = "HTTPException"
                   /\ applied.result.detail = "Invalid value"
                   /\ applied.result.valid = Descriptor.values

\* mode "cool" has been sent as the device's "cold"
C13_Witness ==
    /\ IsCommand("enum")
    /\ applied.request.command = "mode"
    /\ applied.request.value = StrV("cool")
    /\ applied.result.kind = "set_value"
    /\ applied.result.value = StrV("cold")

\* a target_temp request with a numeric (int or float) value
TargetTempRequest ==
    /\ IsCommand("int")
    /\ Lower(applied.request.command) = "target_temp"
    /\ applied.request.value.t \in {"int", "float", "inf"}

\* the finite value of the request in hundredths of the display unit, and
\* fifty times the raw value it stands for (ten times the value in F): in
\* unit C, 50 * 10 * (c * 9 / 5 + 32) = 9 * (100 c) + 16000
Hundredths ==
    IF applied.request.value.t = "int" THEN 100 * applied.request.value.n
                                   ELSE applied.request.value.n
Raw50 == IF temp_unit = "C" THEN 9 * Hundredths + 16000 ELSE 5 * Hundredths

\* the bounds of the raw value
MinRaw == (IF "min" \in DOMAIN Descriptor THEN Descriptor.min ELSE DefaultMin) * Scale
MaxRaw == (IF "max" \in DOMAIN Descriptor THEN Descriptor.max ELSE DefaultMax) * Scale
InRange == 50 * MinRaw <= Raw50 /\ Raw50 <= 50 * MaxRaw

\* C14: every numeric target_temp value is turned into a raw value that
\* set_value gets (it is never rejected and no error escapes), which lies in
\* [10*min, 10*max]: a value in the range gives ten times its value in F (as
\* an integer: its whole part), a value below the range gives 10*min, a
\* value above it, infinity included, gives 10*max.
C14_TargetTempClamped ==
    TargetTempRequest
        => /\ applied.result.kind = "set_value"
           /\ applied.result.value.t = "int"
           /\ LET raw == applied.result.value.n
              IN  /\ MinRaw <= raw /\ raw <= MaxRaw
                  /\ applied.request.value.t = "inf" => raw = MaxRaw
                  /\ applied.request.value.t # "inf" =>
                        /\ InRange => (50 * raw <= Raw50 /\ Raw50 < 50 * (raw + 1))
                        /\ Raw50 < 50 * MinRaw => raw = MinRaw
                        /\ Raw50 > 50 * MaxRaw => raw = MaxRaw

\* the distance of two numbers
Dist(a, b) == IF a >= b THEN a - b ELSE b - a

\* C15: a target temperature given in the display unit (F or C) at 0.1
\* resolution and within the bounds is sent as a raw value from which
\* parse_status reports the target temperature within 0.1 of the value
\* given.
C15_RoundTrip ==
    (/\ TargetTempRequest
     /\ applied.request.value.t = "float"
     /\ applied.request.value.n % 10 = 0
     /\ InRange)
        => /\ applied.result.kind = "set_value"
           /\ LET status == parse_status({<<"2", applied.result.value.n>>})
              IN  /\ Has(status.fields, "target_temp")
                  /\ Dist(10 * Get(status.fields, "target_temp"),
                          applied.request.value.n) <= 10

\* 20.1 C has been sent as raw 681 (68.18 F cut to 68.1 F)
C15_Witness ==
    /\ TargetTempRequest
    /\ temp_unit = "C"
    /\ applied.request.value = FloatV(2010)
    /\ applied.result.kind = "set_value"
    /\ applied.result.value = IntV(681)
    /\ InRange

\* the optional fields of a StatusResponse, each with the key of its datapoint
FieldKeys ==
    {<<"power", "1">>, <<"target_temp", "2">>, <<"current_temp", "3">>,
     <<"mode", "4">>, <<"fan", "5">>, <<"humidity", "18">>,
     <<"vert_swing", "113">>, <<"horiz_swing", "114">>,
     <<"filter_dirty", "131">>}

\* C16: parse_status leaves every optional field absent whose datapoint key
\* is missing from the raw mapping, mode and fan (which go through the
\* vocabulary map) included.
C16_MissingKeyAbsentField ==
    Parsed =>
        \A fk \in FieldKeys :
            ~Has(applied.raw_dps, fk[2]) => ~Has(applied.status.fields, fk[1])

\* a response of the device without power, mode and fan has been parsed,
\* and other fields are reported
C16_Witness ==
    /\ Parsed
    /\ ~Has(applied.raw_dps, "1")
    /\ ~Has(applied.raw_dps, "4")
    /\ ~Has(applied.raw_dps, "5")
    /\ Has(applied.status.fields, "humidity")
    /\ Has(applied.status.fields, "target_temp")

\* the temperature parse_status is to report for the raw value under key,
\* in tenths of the display unit: raw / 10 F for the target ("2"), raw C for
\* the current temperature ("3"), converted and rounded to the nearest tenth
Expected(key, raw) ==
    LET num == IF key = "2"
                  THEN (IF temp_unit = "C" THEN 5 * (raw - 320) ELSE 9 * raw)
                  ELSE (IF temp_unit = "F" THEN 9 * (18 * raw + 320) ELSE 90 * raw)
        q == num \div 9
    IN  IF 2 * (num % 9) > 9 THEN q + 1 ELSE q

\* C17: whenever the raw mapping has the target temperature (key 2) or the
\* current temperature (key 3), raw value 0 included, parse_status reports
\* the field, as the value converted to the display unit and rounded to one
\* decimal.
C17_TemperatureReported ==
    Parsed =>
        \A fk \in {<<"target_temp", "2">>, <<"current_temp", "3">>} :
            Has(applied.raw_dps, fk[2]) =>
                /\ Has(applied.status.fields, fk[1])
                /\ Get(applied.status.fields, fk[1])
                      = Expected(fk[2], Get(applied.raw_dps, fk[2]))

\* C18: parse_status answers online = False, with no optional field, exactly
\* for the empty raw mapping; for every other mapping it answers online =
\* True with the mapping itself as raw_dps.
C18_OnlineIffNonEmpty ==
    Parsed =>
        IF applied.raw_dps = EmptyDps
           THEN ~applied.status.online /\ applied.status.fields = {}
           ELSE applied.status.online /\ applied.status.raw_dps = applied.raw_dps

\* a mapping none of whose keys has a field of its own is online, and echoed
C18_Witness ==
    /\ Parsed
    /\ applied.raw_dps = {<<"18", 0>>}
    /\ applied.status.online
    /\ applied.status.raw_dps = {<<"18", 0>>}

\* C19: a request for an integer datapoint other than target_temp whose
\* value is a str that is no number is rejected with HTTPException(400): no
\* exception of the conversion escapes, and set_value is not called.
C19_NonNumericRejected ==
    (/\ IsCommand("int")
     /\ Lower(applied.request.command) # "target_temp"
     /\ applied.request.value.t = "str"
     /\ ~Has(FloatLiterals, applied.request.value.s))
        => applied.result.kind = "HTTPException"

\* C25: a request for a datapoint whose descriptor is marked readonly is
\* rejected before set_value is called: no command causes a write to it.
C25_ReadonlyNotWritten ==
    (/\ Commanded
     /\ Lower(applied.request.command) \in DOMAIN DATAPOINTS
     /\ DescGet(Descriptor, "readonly", FALSE))
        => applied.result.kind # "set_value"

====
